---- MODULE Spec2Model ----
(***************************************************************************)
(* Model of the scenario-player log analysis (analysis.py, prometheus.py): *)
(* the reader, the node-log loader, the task reconstructor, the statistics *)
(* aggregator and the control flow of main.                                *)
(*                                                                         *)
(* Text is a sequence of one-character strings, compared by code point as  *)
(* Python compares str.  A JSON value is [str |-> text] or [num |-> n]; a  *)
(* JSON object is a function from key text to values.                      *)
(***************************************************************************)
EXTENDS Integers, Sequences, FiniteSets, TLC

(* ------------------------------ bounds -------------------------------- *)

\* lines in the scenario-player log file
MaxLines == 4
\* node log files on disk
MaxLogs == 2
\* events handed to fill_rows when it is applied on its own
MaxEvents == 3

(* ------------------------- Python str and list ------------------------ *)

\* printable ASCII, code points 32..126 (34, 92 and 96 stand under their names)
Ascii ==
    << " ", "!", "dquote", "#", "$", "%", "&", "'", "(", ")", "*", "+", ",", "-", ".", "/",
       "0", "1", "2", "3", "4", "5", "6", "7", "8", "9", ":", ";", "<", "=", ">", "?",
       "@", "A", "B", "C", "D", "E", "F", "G", "H", "I", "J", "K", "L", "M", "N", "O",
       "P", "Q", "R", "S", "T", "U", "V", "W", "X", "Y", "Z", "[", "backslash", "]", "^", "_",
       "backquote", "a", "b", "c", "d", "e", "f", "g", "h", "i", "j", "k", "l", "m", "n", "o",
       "p", "q", "r", "s", "t", "u", "v", "w", "x", "y", "z", "{", "|", "}", "~" >>

Ord(c) == 31 + (CHOOSE i \in 1..Len(Ascii) : Ascii[i] = c)

Digits == <<"0", "1", "2", "3", "4", "5", "6", "7", "8", "9">>

IsDigit(c) == \E i \in 1..10 : Digits[i] = c

DigitVal(c) == (CHOOSE i \in 1..10 : Digits[i] = c) - 1

\* a < b for str: the first differing character decides, a proper prefix is smaller
RECURSIVE StrLess(_, _)
StrLess(a, b) ==
    IF b = <<>> THEN FALSE
    ELSE IF a = <<>> THEN TRUE
    ELSE IF Head(a) = Head(b) THEN StrLess(Tail(a), Tail(b))
    ELSE Ord(Head(a)) < Ord(Head(b))

StrLeq(a, b) == a = b \/ StrLess(a, b)

\* (needle in hay) for str
Contains(hay, needle) ==
    \E i \in 0..(Len(hay) - Len(needle)) : SubSeq(hay, i + 1, i + Len(needle)) = needle

\* str(n) for a non-negative int
RECURSIVE Str(_)
Str(n) == IF n < 10 THEN <<Digits[n + 1]>> ELSE Str(n \div 10) \o <<Digits[(n % 10) + 1]>>

\* s.replace(c, "") for a one-character c
RECURSIVE Remove(_, _)
Remove(s, c) ==
    IF s = <<>> THEN <<>>
    ELSE IF Head(s) = c THEN Remove(Tail(s), c)
    ELSE <<Head(s)>> \o Remove(Tail(s), c)

RECURSIVE LStrip(_)
LStrip(s) == IF s # <<>> /\ Head(s) = " " THEN LStrip(Tail(s)) ELSE s

RECURSIVE RStrip(_)
RStrip(s) == IF s # <<>> /\ s[Len(s)] = " " THEN RStrip(SubSeq(s, 1, Len(s) - 1)) ELSE s

\* s.strip()
Strip(s) == RStrip(LStrip(s))

\* position of the first c in s, 0 when there is none
Find(s, c) ==
    IF \E i \in 1..Len(s) : s[i] = c
    THEN CHOOSE i \in 1..Len(s) : s[i] = c /\ \A j \in 1..(i - 1) : s[j] # c
    ELSE 0

\* s.split(c, 1)
Split1(s, c) ==
    IF Find(s, c) = 0 THEN <<s>>
    ELSE <<SubSeq(s, 1, Find(s, c) - 1), SubSeq(s, Find(s, c) + 1, Len(s))>>

\* s.split(c)
RECURSIVE Split(_, _)
Split(s, c) ==
    IF Find(s, c) = 0 THEN <<s>>
    ELSE <<SubSeq(s, 1, Find(s, c) - 1)>> \o Split(SubSeq(s, Find(s, c) + 1, Len(s)), c)

\* one step of a stable sort of <<key, item>> pairs on their str keys: x goes
\* after every pair whose key is not greater
RECURSIVE InsertSorted(_, _)
InsertSorted(sorted, x) ==
    IF sorted = <<>> THEN <<x>>
    ELSE IF StrLess(x[1], Head(sorted)[1]) THEN <<x>> \o sorted
    ELSE <<Head(sorted)>> \o InsertSorted(Tail(sorted), x)

RECURSIVE SortPairs(_)
SortPairs(pairs) ==
    IF pairs = <<>> THEN <<>>
    ELSE InsertSorted(SortPairs(SubSeq(pairs, 1, Len(pairs) - 1)), pairs[Len(pairs)])

\* all sequences over S of length at most n
SeqsUpTo(S, n) == UNION {[1..k -> S] : k \in 0..n}

Range(s) == {s[i] : i \in 1..Len(s)}

(* ------------------------------ JSON ---------------------------------- *)

JStr(text) == [str |-> text]
JNum(n) == [num |-> n]
IsJStr(v) == "str" \in DOMAIN v

\* str(v) of a decoded JSON value
PyStr(v) == IF IsJStr(v) THEN v.str ELSE Str(v.num)

K_run_number == <<"r", "u", "n", "_", "n", "u", "m", "b", "e", "r">>
K_runtime == <<"r", "u", "n", "t", "i", "m", "e">>
K_timestamp == <<"t", "i", "m", "e", "s", "t", "a", "m", "p">>
K_event == <<"e", "v", "e", "n", "t">>
K_task == <<"t", "a", "s", "k">>
K_id == <<"i", "d">>
K_identifier == <<"i", "d", "e", "n", "t", "i", "f", "i", "e", "r">>
K_nodes_involved == <<"n", "o", "d", "e", "s", "_", "i", "n", "v", "o", "l", "v", "e", "d">>

\* (needle in row) on the text of a log line.  The line is the JSON encoding of
\* its object; a needle free of quotes, colons and commas can only lie inside
\* one key or one string value of that text.
RowContains(row, needle) ==
    \/ \E k \in DOMAIN row : Contains(k, needle)
    \/ \E k \in DOMAIN row : IsJStr(row[k]) /\ Contains(row[k].str, needle)

(* --------------------------- read_raw_content ------------------------- *)

\* Content(x["timestamp"], x["event"], x)
Content(x) == [timestamp |-> x[K_timestamp], event |-> x[K_event], json |-> x]

\* the test that takes a line as the run-number marker: "run_number" in row,
\* made on the text of the line, before it is decoded
IsMarkerRow(row) == RowContains(row, K_run_number)

\* one pass of the loop over the lines; st is the function's local state, with
\* bound telling whether the local run_number has been assigned
read_raw_content_row(st, row) ==
    IF IsMarkerRow(row)
    THEN IF K_run_number \in DOMAIN row
         THEN [st EXCEPT !.bound = TRUE, !.run_number = row[K_run_number]]
         ELSE [st EXCEPT !.exc = "KeyError"]
    ELSE IF K_runtime \in DOMAIN row
         THEN IF {K_timestamp, K_event} \subseteq DOMAIN row
              THEN [st EXCEPT !.stripped_content = Append(@, Content(row))]
              ELSE [st EXCEPT !.exc = "KeyError"]
         ELSE st

RECURSIVE read_raw_content_loop(_, _)
read_raw_content_loop(content, st) ==
    IF content = <<>> \/ st.exc # "none" THEN st
    ELSE read_raw_content_loop(Tail(content), read_raw_content_row(st, Head(content)))

\* the list left in file order
sort_by_timestamp_omitted(stripped_content) == stripped_content

\* stripped_content.sort(key=lambda e: e[0])
sort_by_timestamp(stripped_content) ==
    LET pairs == [i \in 1..Len(stripped_content) |->
                    <<stripped_content[i].timestamp.str, stripped_content[i]>>]
        sorted == SortPairs(pairs)
    IN  [i \in 1..Len(sorted) |-> sorted[i][2]]

\* the value or the exception of read_raw_content on the lines of the file
read_raw_content(content) ==
    LET st == read_raw_content_loop(content,
                  [exc |-> "none", bound |-> FALSE, run_number |-> JStr(<<>>),
                   stripped_content |-> <<>>])
    IN  IF st.exc # "none"
        THEN [exc |-> st.exc, stripped_content |-> <<>>, run_number |-> <<>>]
        ELSE IF ~st.bound
        THEN [exc |-> "UnboundLocalError", stripped_content |-> <<>>, run_number |-> <<>>]
        ELSE [exc |-> "none",
              stripped_content |-> sort_by_timestamp(st.stripped_content),
              run_number |-> PyStr(st.run_number)]

(* ---------------------------- open_node_logs -------------------------- *)

\* glob(".../node_{run_number}_*/*.log*"): the files under a directory of that
\* run.  A file on disk is [run |-> text, text |-> text], run being the part of
\* its directory's name between "node_" and the next "_".
glob_node_logs(files, run) == {f \in files : f.run = run}

\* the orders in which glob may hand out the files of a set
Orders(S) == {s \in [1..Cardinality(S) -> S] : Range(s) = S}

(* ------------------------------ fill_rows ----------------------------- *)

\* count_log_occurrences(key, node_logs)
RECURSIVE count_log_occurrences(_, _)
count_log_occurrences(key, node_logs) ==
    IF node_logs = <<>> THEN 0
    ELSE (IF Contains(Head(node_logs), key) THEN 1 ELSE 0)
         + count_log_occurrences(key, Tail(node_logs))

RECURSIVE ParseNat(_, _, _)
ParseNat(s, base, acc) ==
    IF s = <<>> THEN acc ELSE ParseNat(Tail(s), base, acc * base + DigitVal(Head(s)))

\* the value YAML gives a plain scalar: a decimal or an octal int, or a str
yaml_scalar(s) ==
    IF s # <<>> /\ \A i \in 1..Len(s) : IsDigit(s[i])
    THEN IF Len(s) = 1 \/ Head(s) # "0" THEN JNum(ParseNat(s, 10, 0))
         ELSE IF \A i \in 1..Len(s) : DigitVal(s[i]) < 8 THEN JNum(ParseNat(s, 8, 0))
         ELSE JStr(s)
    ELSE JStr(s)

\* yaml.safe_load on the texts the task descriptions are written in: a flow
\* mapping {k: v, k: v} of plain scalars gives [map |-> key -> value], any
\* other text a scalar
yaml_safe_load(text) ==
    IF Len(text) >= 2 /\ Head(text) = "{" /\ text[Len(text)] = "}"
    THEN LET inner == Strip(SubSeq(text, 2, Len(text) - 1))
             items == IF inner = <<>> THEN <<>> ELSE Split(inner, ",")
             kv == [i \in 1..Len(items) |-> Split1(items[i], ":")]
             key(i) == Strip(kv[i][1])
             last(k) == CHOOSE i \in 1..Len(kv) :
                            key(i) = k /\ \A j \in (i + 1)..Len(kv) : key(j) # k
         IN  [map |-> [k \in {key(i) : i \in 1..Len(kv)} |->
                          yaml_scalar(Strip(kv[last(k)][2]))]]
    ELSE yaml_scalar(text)

\* isinstance(task_body_json, dict)
IsDict(v) == "map" \in DOMAIN v

\* task_body[0].replace("<", "").strip()
task_type_of(task) == Strip(Remove(Split1(task.json[K_task].str, ":")[1], "<"))

\* task_body[1].replace(">", "").strip()
task_desc_of(task) == Strip(Remove(Split1(task.json[K_task].str, ":")[2], ">"))

task_body_json_of(task) == yaml_safe_load(task_desc_of(task))

\* the index alone, the payload's id ignored
row_num_ignores_id(num, task) == num

\* num: the index enumerate gives the event, unless its payload has an id
row_num(num, task) == IF K_id \in DOMAIN task.json THEN task.json[K_id].num ELSE num

\* nodes_involved
nodes_involved_of(task_body_json, node_logs) ==
    IF K_identifier \in DOMAIN task_body_json.map
    THEN count_log_occurrences(PyStr(task_body_json.map[K_identifier]), node_logs)
    ELSE 0

\* the plural taken from one node on
annotate_plural_from_one(task_type, nodes_involved) ==
    IF nodes_involved # 0
    THEN task_type \o <<"(">> \o Str(nodes_involved) \o <<" ", "n", "o", "d", "e">>
         \o (IF nodes_involved >= 1 THEN <<"s">> ELSE <<>>) \o <<")">>
    ELSE task_type

\* f"{task_type}({nodes_involved} node{nodes_involved > 1 and 's' or ''})"
annotate(task_type, nodes_involved) ==
    IF nodes_involved # 0
    THEN task_type \o <<"(">> \o Str(nodes_involved) \o <<" ", "n", "o", "d", "e">>
         \o (IF nodes_involved > 1 THEN <<"s">> ELSE <<>>) \o <<")">>
    ELSE task_type

\* LOGGER_DATE_FMT, of which the model keeps the minutes and seconds, "%M:%S":
\* datetime.strptime(ts, LOGGER_DATE_FMT) as seconds
strptime(ts) ==
    (DigitVal(ts[1]) * 10 + DigitVal(ts[2])) * 60 + DigitVal(ts[4]) * 10 + DigitVal(ts[5])

TwoDigits(n) == <<Digits[(n \div 10) + 1], Digits[(n % 10) + 1]>>

\* datetime.strftime(t, LOGGER_DATE_FMT)
strftime(t) == TwoDigits(t \div 60) \o <<":">> \o TwoDigits(t % 60)

\* f"{task_type}(#{num})"
gantt_label(task_type, num) == task_type \o <<"(", "#">> \o Str(num) \o <<")">>

\* task_body_json["nodes_involved"] = nodes_involved; the description rows carry
\* is this mapping, which json.dumps then renders
task_full_desc_of(task_body_json, nodes_involved) ==
    [k \in DOMAIN task_body_json.map \cup {K_nodes_involved} |->
        IF k = K_nodes_involved THEN JNum(nodes_involved) ELSE task_body_json.map[k]]

\* CSVRow(num, task_type, duration, nodes_involved)
CSVRow(num, task_type, duration, nodes_involved) ==
    [num |-> num, task_type |-> task_type, duration |-> duration,
     nodes_involved |-> nodes_involved]

\* the three rows of a retained event, appended to the three lists
append_rows(rows, num, task_type, task, nodes_involved, task_full_desc) ==
    [gantt_rows |-> Append(rows.gantt_rows,
                      [Task |-> gantt_label(task_type, num),
                       Start |-> strftime(strptime(task.timestamp.str)
                                          - task.json[K_runtime].num),
                       Finish |-> task.timestamp.str,
                       Description |-> task_full_desc]),
     table_rows |-> Append(rows.table_rows,
                      [id |-> num, type |-> task_type,
                       duration |-> task.json[K_runtime].num,
                       description |-> task_full_desc]),
     csv_rows |-> Append(rows.csv_rows,
                    CSVRow(num, task_type, task.json[K_runtime].num, nodes_involved))]

\* a variant that adds the table row above the wait-task check
fill_rows_task_skip_misplaced(rows, num, task, node_logs) ==
    IF ~IsDict(task_body_json_of(task))
    THEN [rows EXCEPT !.table_rows =
              Append(@, [id |-> row_num(num, task), type |-> task_type_of(task),
                         duration |-> task.json[K_runtime].num,
                         description |-> <<>>])]
    ELSE LET nodes_involved == nodes_involved_of(task_body_json_of(task), node_logs)
         IN  append_rows(rows, row_num(num, task),
                         annotate(task_type_of(task), nodes_involved), task,
                         nodes_involved,
                         task_full_desc_of(task_body_json_of(task), nodes_involved))

\* the body of the loop over enumerate(content), for one (num, task)
fill_rows_task(rows, num, task, node_logs) ==
    IF ~IsDict(task_body_json_of(task))
    THEN rows
    ELSE LET nodes_involved == nodes_involved_of(task_body_json_of(task), node_logs)
         IN  append_rows(rows, row_num(num, task),
                         annotate(task_type_of(task), nodes_involved), task,
                         nodes_involved,
                         task_full_desc_of(task_body_json_of(task), nodes_involved))

\* the loop, from index num on, enumerate counting every event of content
RECURSIVE fill_rows_loop(_, _, _, _)
fill_rows_loop(content, node_logs, num, rows) ==
    IF num >= Len(content) THEN rows
    ELSE fill_rows_loop(content, node_logs, num + 1,
                        fill_rows_task(rows, num, content[num + 1], node_logs))

NoRows == [gantt_rows |-> <<>>, csv_rows |-> <<>>, table_rows |-> <<>>]

fill_rows(content, node_logs) == fill_rows_loop(content, node_logs, 0, NoRows)

(* ------------------------- generate_statistics ------------------------ *)

\* the rows grouped as they come, unsorted
sorted_by_task_type_omitted(csv_rows) == csv_rows

\* sorted(filled_rows["csv_rows"], key=lambda r: r.task_type)
sorted_by_task_type(csv_rows) ==
    LET sorted == SortPairs([i \in 1..Len(csv_rows) |->
                                <<csv_rows[i].task_type, csv_rows[i]>>])
    IN  [i \in 1..Len(sorted) |-> sorted[i][2]]

\* itertools.groupby(rows, key=lambda r: r.task_type): a new group starts
\* wherever the key differs from the row before
RECURSIVE groupby_task_type(_, _)
groupby_task_type(rows, groups) ==
    IF rows = <<>> THEN groups
    ELSE IF groups # <<>> /\ groups[Len(groups)].key = Head(rows).task_type
    THEN groupby_task_type(Tail(rows),
             [groups EXCEPT ![Len(groups)].group = Append(@, Head(rows))])
    ELSE groupby_task_type(Tail(rows),
             Append(groups, [key |-> Head(rows).task_type, group |-> <<Head(rows)>>]))

SeqMin(s) == CHOOSE x \in Range(s) : \A y \in Range(s) : x <= y
SeqMax(s) == CHOOSE x \in Range(s) : \A y \in Range(s) : x >= y

\* the result built for one group; mean, median, p95 and stdev are numpy's
\* values of raw_durations
group_result(key, group) ==
    LET duration_transfers == [i \in 1..Len(group) |-> group[i].duration]
    IN  [raw_durations |-> duration_transfers,
         name |-> key,
         min |-> SeqMin(duration_transfers),
         max |-> SeqMax(duration_transfers),
         count |-> Len(duration_transfers)]

generate_statistics(filled_rows) ==
    LET groups == groupby_task_type(sorted_by_task_type(filled_rows.csv_rows), <<>>)
    IN  [i \in 1..Len(groups) |-> group_result(groups[i].key, groups[i].group)]

(* -------------------------------- main -------------------------------- *)

\* the rows filled before the node logs are opened
main_stages_fill_first ==
    <<"read_raw_content", "fill_rows", "open_node_logs", "parse_filled_rows",
      "generate_statistics", "makedirs", "draw_gantt", "write_csv", "write_statistics",
      "post_report">>

\* the calls main makes once the secret is read, in the order of its text
main_stages ==
    <<"read_raw_content", "open_node_logs", "fill_rows", "parse_filled_rows",
      "generate_statistics", "makedirs", "draw_gantt", "write_csv", "write_statistics",
      "post_report">>

stage_after(name) ==
    main_stages[(CHOOSE i \in 1..Len(main_stages) : main_stages[i] = name) + 1]

\* positional parameters parse_filled_rows declares, none with a default
parse_filled_rows_params == 4
\* positional arguments main passes to parse_filled_rows
parse_filled_rows_args == 3

(* ------------------------------- inputs ------------------------------- *)

T_0004 == <<"0", "0", ":", "0", "4">>
T_0005 == <<"0", "0", ":", "0", "5">>
T_0006 == <<"0", "0", ":", "0", "6">>
T_0007 == <<"0", "0", ":", "0", "7">>
T_0008 == <<"0", "0", ":", "0", "8">>
T_0109 == <<"0", "1", ":", "0", "9">>

\* "<T: {identifier: ab}>"
Task_T_ab == <<"<", "T", ":", " ", "{">> \o K_identifier \o <<":", " ", "a", "b", "}", ">">>
\* "<T: {identifier: 7}>"
Task_T_7 == <<"<", "T", ":", " ", "{">> \o K_identifier \o <<":", " ", "7", "}", ">">>
\* "<T: {amount: 1}>"
Task_T_plain == <<"<", "T", ":", " ", "{", "a", "m", "o", "u", "n", "t", ":", " ", "1", "}", ">">>
\* "<S: {amount: 3, to: b}>"
Task_S == <<"<", "S", ":", " ", "{", "a", "m", "o", "u", "n", "t", ":", " ", "3", ",", " ",
            "t", "o", ":", " ", "b", "}", ">">>
\* "<Wait: 5>"
Task_Wait == <<"<", "W", "a", "i", "t", ":", " ", "5", ">">>
\* "<T: {note: run_number}>"
Task_mention == <<"<", "T", ":", " ", "{", "n", "o", "t", "e", ":", " ">> \o K_run_number
                \o <<"}", ">">>

LogRecord(ts) == (K_timestamp :> JStr(ts)) @@ (K_event :> JStr(<<"e">>))

TaskRecord(ts, task, runtime) ==
    LogRecord(ts) @@ (K_task :> JStr(task)) @@ (K_runtime :> JNum(runtime))

\* the records a log line is drawn from: the run-number marker (with a number,
\* with an empty string), a status record, task records, a wait task, and a
\* task whose description holds the words run_number
Line_marker == LogRecord(T_0004) @@ (K_run_number :> JNum(1))
Line_marker_empty == LogRecord(T_0004) @@ (K_run_number :> JStr(<<>>))
Line_status == LogRecord(T_0005)
Line_T_ab == TaskRecord(T_0007, Task_T_ab, 2)
Line_S_id == TaskRecord(T_0005, Task_S, 1) @@ (K_id :> JNum(7))
Line_Wait == TaskRecord(T_0006, Task_Wait, 1)
Line_mention == TaskRecord(T_0008, Task_mention, 1)
Line_T_7 == TaskRecord(T_0109, Task_T_7, 3)
Line_T_plain == TaskRecord(T_0004, Task_T_plain, 1)

Lines ==
    {Line_marker, Line_marker_empty, Line_status, Line_T_ab, Line_S_id, Line_Wait,
     Line_mention}

\* events fill_rows is applied to on its own
Events == {Content(Line_T_ab), Content(Line_S_id), Content(Line_Wait), Content(Line_T_7),
           Content(Line_T_plain)}

Log_xabx == <<"x", "a", "b", "x">>
Log_ab7 == <<"a", "b", "7">>

NodeLogTexts == {Log_xabx, Log_ab7}

\* node log files on disk: two of run 1, one of run 2
NodeLogFiles ==
    {[run |-> <<"1">>, text |-> Log_xabx], [run |-> <<"1">>, text |-> Log_ab7],
     [run |-> <<"2">>, text |-> <<"a", "b">>]}

(* ------------------------------- state -------------------------------- *)

VARIABLES
    secret,            \* os.environ.get("RC_HOOK_SECRET"): "None" or "set"
    input_file,        \* the lines of the log file, decoded
    node_files,        \* the node log files on disk
    pc,                \* where main stands
    exc,               \* the exception that ended main, "none" while there is none
    stripped_content,  \* main's stripped_content
    run_number,        \* main's run_number
    node_logs,         \* main's node_logs
    filled_rows,       \* main's filled_rows
    summary,           \* the value of generate_statistics
    calls,             \* the functions called so far, in order
    posts              \* the messages posted to the hook

vars ==
    <<secret, input_file, node_files, pc, exc, stripped_content, run_number, node_logs,
      filled_rows, summary, calls, posts>>

Init ==
    /\ secret \in {"None", "set"}
    /\ input_file \in SeqsUpTo(Lines, MaxLines)
    /\ node_files \in {S \in SUBSET NodeLogFiles : Cardinality(S) <= MaxLogs}
    /\ pc = "start"
    /\ exc = "none"
    /\ stripped_content = <<>>
    /\ run_number = <<>>
    /\ node_logs = <<>>
    /\ filled_rows = NoRows
    /\ summary = <<>>
    /\ calls = <<>>
    /\ posts = <<>>

\* main up to the call of read_raw_content: without the secret it raises SystemExit
Start ==
    /\ pc = "start"
    /\ IF secret = "None"
       THEN pc' = "raised" /\ exc' = "SystemExit"
       ELSE pc' = main_stages[1] /\ exc' = exc
    /\ UNCHANGED <<secret, input_file, node_files, stripped_content, run_number,
                   node_logs, filled_rows, summary, calls, posts>>

\* stripped_content, run_number = read_raw_content(args.input_file[0])
ReadRawContent ==
    /\ pc = "read_raw_content"
    /\ calls' = Append(calls, "read_raw_content")
    /\ LET r == read_raw_content(input_file)
       IN  IF r.exc # "none"
           THEN /\ pc' = "raised"
                /\ exc' = r.exc
                /\ UNCHANGED <<stripped_content, run_number>>
           ELSE /\ pc' = "empty_check"
                /\ exc' = exc
                /\ stripped_content' = r.stripped_content
                /\ run_number' = r.run_number
    /\ UNCHANGED <<secret, input_file, node_files, node_logs, filled_rows, summary, posts>>

\* not stripped_content or not run_number
IsEmptyRun == stripped_content = <<>> \/ run_number = <<>>

\* post_empty(args.input_file[0], url); sys.exit(0)
PostEmpty ==
    /\ pc = "empty_check"
    /\ IsEmptyRun
    /\ calls' = Append(calls, "post_empty")
    /\ posts' = Append(posts, "No output")
    /\ pc' = "exit_0"
    /\ UNCHANGED <<secret, input_file, node_files, exc, stripped_content, run_number,
                   node_logs, filled_rows, summary>>

\* the run is not empty: main goes on
PassEmptyCheck ==
    /\ pc = "empty_check"
    /\ ~IsEmptyRun
    /\ pc' = stage_after("read_raw_content")
    /\ UNCHANGED <<secret, input_file, node_files, exc, stripped_content, run_number,
                   node_logs, filled_rows, summary, calls, posts>>

\* node_logs = open_node_logs(os.path.join(log_path, f"node_{run_number}_*/*.log*"))
OpenNodeLogs ==
    /\ pc = "open_node_logs"
    /\ calls' = Append(calls, "open_node_logs")
    /\ \E order \in Orders(glob_node_logs(node_files, run_number)) :
           node_logs' = [i \in 1..Len(order) |-> order[i].text]
    /\ pc' = stage_after("open_node_logs")
    /\ UNCHANGED <<secret, input_file, node_files, exc, stripped_content, run_number,
                   filled_rows, summary, posts>>

\* filled_rows = fill_rows(stripped_content, node_logs)
FillRows ==
    /\ pc = "fill_rows"
    /\ calls' = Append(calls, "fill_rows")
    /\ filled_rows' = fill_rows(stripped_content, node_logs)
    /\ pc' = stage_after("fill_rows")
    /\ UNCHANGED <<secret, input_file, node_files, exc, stripped_content, run_number,
                   node_logs, summary, posts>>

\* parse_filled_rows(filled_rows, scenario_name, PROMETHEUS_NODE_EXPORTER_PATH):
\* the call binds three arguments to four required parameters, so Python raises
\* TypeError before the body runs and main ends there
ParseFilledRows ==
    /\ pc = "parse_filled_rows"
    /\ calls' = Append(calls, "parse_filled_rows")
    /\ IF parse_filled_rows_args # parse_filled_rows_params
       THEN pc' = "raised" /\ exc' = "TypeError"
       ELSE pc' = stage_after("parse_filled_rows") /\ exc' = exc
    /\ UNCHANGED <<secret, input_file, node_files, stripped_content, run_number,
                   node_logs, filled_rows, summary, posts>>

Next ==
    \/ Start
    \/ ReadRawContent
    \/ PostEmpty
    \/ PassEmptyCheck
    \/ OpenNodeLogs
    \/ FillRows
    \/ ParseFilledRows

Spec == Init /\ [][Next]_vars

(* ------------------- the functions applied on their own --------------- *)

InitRows ==
    /\ secret = "set"
    /\ input_file = <<>>
    /\ node_files = {}
    /\ pc = "apply_fill_rows"
    /\ exc = "none"
    /\ stripped_content \in SeqsUpTo(Events, MaxEvents)
    /\ run_number = <<"1">>
    /\ node_logs \in SeqsUpTo(NodeLogTexts, MaxLogs)
    /\ filled_rows = NoRows
    /\ summary = <<>>
    /\ calls = <<>>
    /\ posts = <<>>

\* fill_rows(content, node_logs)
ApplyFillRows ==
    /\ pc = "apply_fill_rows"
    /\ filled_rows' = fill_rows(stripped_content, node_logs)
    /\ calls' = Append(calls, "fill_rows")
    /\ pc' = "apply_generate_statistics"
    /\ UNCHANGED <<secret, input_file, node_files, exc, stripped_content, run_number,
                   node_logs, summary, posts>>

\* generate_statistics(filled_rows)
ApplyGenerateStatistics ==
    /\ pc = "apply_generate_statistics"
    /\ summary' = generate_statistics(filled_rows)
    /\ calls' = Append(calls, "generate_statistics")
    /\ pc' = "applied"
    /\ UNCHANGED <<secret, input_file, node_files, exc, stripped_content, run_number,
                   node_logs, filled_rows, posts>>

NextRows ==
    \/ ApplyFillRows
    \/ ApplyGenerateStatistics

SpecRows == InitRows /\ [][NextRows]_vars

(* ------------------------------ properties ---------------------------- *)

\* whether the description of an event loads as a mapping
IsRetained(task) == IsDict(task_body_json_of(task))

\* the positions in content, in increasing order, of the events fill_rows keeps
KeptPositions(content) ==
    SelectSeq([i \in 1..Len(content) |-> i], LAMBDA i : IsRetained(content[i]))

\* the events fill_rows keeps, in the order of content
Kept(content) == SelectSeq(content, IsRetained)

FillRowsApplied == pc \in {"apply_generate_statistics", "applied"}

\* C1: fill_rows gives three lists of one length, the number of events whose
\* description loads as a mapping; the i-th rows of the three lists come from
\* the i-th such event (one id, one annotated type, one duration), and an event
\* whose description is no mapping has a row in none of them.
C1_RowsAligned ==
    FillRowsApplied =>
        LET kept == Kept(stripped_content)
            g == filled_rows.gantt_rows
            t == filled_rows.table_rows
            c == filled_rows.csv_rows
        IN  /\ Len(g) = Len(kept) /\ Len(t) = Len(kept) /\ Len(c) = Len(kept)
            /\ Len(kept) = Cardinality({i \in 1..Len(stripped_content) :
                                           IsRetained(stripped_content[i])})
            /\ \A i \in 1..Len(kept) :
                   /\ t[i].id = c[i].num
                   /\ t[i].type = c[i].task_type
                   /\ t[i].duration = c[i].duration
                   /\ t[i].description = g[i].Description
                   /\ g[i].Task = c[i].task_type \o <<"(", "#">> \o Str(c[i].num) \o <<")">>
                   /\ g[i].Finish = kept[i].timestamp.str
                   /\ c[i].duration = kept[i].json[K_runtime].num

\* fill_rows has run on events of which one was skipped and two were kept
C1_Witness ==
    /\ FillRowsApplied
    /\ Len(filled_rows.csv_rows) >= 2
    /\ Len(stripped_content) > Len(filled_rows.csv_rows)

\* C2, as amended: the id of a row is the payload's id when the payload has
\* one, and otherwise the zero-based position of its event among all the events
\* handed to fill_rows, the skipped ones counted.
C2_IdIsInputPosition ==
    FillRowsApplied =>
        LET at == KeptPositions(stripped_content)
            g == filled_rows.gantt_rows
            t == filled_rows.table_rows
            c == filled_rows.csv_rows
        IN  /\ Len(c) = Len(at)
            /\ \A i \in 1..Len(at) :
                   LET json == stripped_content[at[i]].json
                       id == IF K_id \in DOMAIN json THEN json[K_id].num ELSE at[i] - 1
                   IN  /\ c[i].num = id
                       /\ t[i].id = id
                       /\ g[i].Task = c[i].task_type \o <<"(", "#">> \o Str(id) \o <<")">>

\* C2, as claimed: without an id in the payload the id of a row is its
\* zero-based position among the kept events, so the ids run 0, 1, ..., k-1.
C2_IdIsRetainedPosition ==
    FillRowsApplied =>
        LET at == KeptPositions(stripped_content)
            c == filled_rows.csv_rows
        IN  \A i \in 1..Len(c) :
                c[i].num = IF K_id \in DOMAIN stripped_content[at[i]].json
                           THEN stripped_content[at[i]].json[K_id].num
                           ELSE i - 1

\* a kept event without an id follows a skipped one, and another kept event
\* bears an id
C2_Witness ==
    /\ FillRowsApplied
    /\ \E i \in 1..Len(filled_rows.csv_rows) :
           LET p == KeptPositions(stripped_content)[i]
           IN  /\ K_id \notin DOMAIN stripped_content[p].json
               /\ p > i
    /\ \E p \in 1..Len(stripped_content) :
           IsRetained(stripped_content[p]) /\ K_id \in DOMAIN stripped_content[p].json

\* the number of node logs that hold the stringified identifier of an event
Involvement(task, logs) ==
    LET m == task_body_json_of(task).map
    IN  IF K_identifier \in DOMAIN m
        THEN Cardinality({j \in 1..Len(logs) : Contains(logs[j], PyStr(m[K_identifier]))})
        ELSE 0

Suffix(n) ==
    IF n = 0 THEN <<>>
    ELSE IF n = 1 THEN <<"(", "1", " ", "n", "o", "d", "e", ")">>
    ELSE <<"(">> \o Str(n) \o <<" ", "n", "o", "d", "e", "s", ")">>

\* C3: for a kept event, with n the number of node logs holding its stringified
\* identifier (0 without an identifier), nodes_involved is n, 0 <= n <= the
\* number of node logs, and the type in the three rows is the base type alone
\* for n = 0, with "(1 node)" for n = 1 and with "(n nodes)" for n > 1.
C3_InvolvementAnnotation ==
    FillRowsApplied =>
        LET kept == Kept(stripped_content)
            g == filled_rows.gantt_rows
            t == filled_rows.table_rows
            c == filled_rows.csv_rows
        IN  /\ Len(c) = Len(kept)
            /\ \A i \in 1..Len(kept) :
                   LET n == Involvement(kept[i], node_logs)
                       type == task_type_of(kept[i]) \o Suffix(n)
                   IN  /\ n >= 0 /\ n <= Len(node_logs)
                       /\ c[i].nodes_involved = n
                       /\ c[i].task_type = type
                       /\ t[i].type = type
                       /\ SubSeq(g[i].Task, 1, Len(type)) = type
                       /\ g[i].Task[Len(type) + 1] = "("
                       /\ g[i].Task[Len(type) + 2] = "#"

\* rows of no, of one and of two involved nodes in one result
C3_Witness ==
    /\ FillRowsApplied
    /\ \A n \in 0..2 : \E i \in 1..Len(filled_rows.csv_rows) :
           /\ filled_rows.csv_rows[i].nodes_involved = n
           /\ filled_rows.csv_rows[i].task_type =
                  task_type_of(Kept(stripped_content)[i]) \o Suffix(n)

StatisticsApplied == pc = "applied"

\* C6: for a non-empty list of rows generate_statistics gives one group for
\* each task_type of the list, in strictly increasing order of name; the count
\* of a group is the number of rows of its task_type and its raw_durations are
\* the durations of those rows, so the counts add up to the number of rows; and
\* rows of fill_rows with one base type and different nodes_involved are in
\* different groups.
C6_GroupsPerTaskType ==
    (StatisticsApplied /\ filled_rows.csv_rows # <<>>) =>
        LET c == filled_rows.csv_rows
            kept == Kept(stripped_content)
            types == {c[i].task_type : i \in 1..Len(c)}
            of(type) == SelectSeq(c, LAMBDA r : r.task_type = type)
            group(i) == CHOOSE k \in 1..Len(summary) : summary[k].name = c[i].task_type
        IN  /\ Len(summary) = Cardinality(types)
            /\ {summary[k].name : k \in 1..Len(summary)} = types
            /\ \A k \in 1..(Len(summary) - 1) : StrLess(summary[k].name, summary[k + 1].name)
            /\ \A k \in 1..Len(summary) :
                   /\ summary[k].count = Len(of(summary[k].name))
                   /\ summary[k].raw_durations =
                          [j \in 1..Len(of(summary[k].name)) |-> of(summary[k].name)[j].duration]
            /\ \A i, j \in 1..Len(c) :
                   (/\ task_type_of(kept[i]) = task_type_of(kept[j])
                    /\ c[i].nodes_involved # c[j].nodes_involved)
                   => group(i) # group(j)

\* statistics of rows that come unsorted, two of them in one group, and two of
\* one base type with different nodes_involved
C6_Witness ==
    /\ StatisticsApplied
    /\ \E k \in 1..Len(summary) : summary[k].count >= 2
    /\ \E i \in 1..(Len(filled_rows.csv_rows) - 1) :
           StrLess(filled_rows.csv_rows[i + 1].task_type, filled_rows.csv_rows[i].task_type)
    /\ \E i, j \in 1..Len(filled_rows.csv_rows) :
           /\ task_type_of(Kept(stripped_content)[i]) = task_type_of(Kept(stripped_content)[j])
           /\ filled_rows.csv_rows[i].nodes_involved # filled_rows.csv_rows[j].nodes_involved

\* the lines of the log that bear a run_number key, in file order
MarkerLines == SelectSeq(input_file, LAMBDA row : K_run_number \in DOMAIN row)

\* the lines that bear a runtime key and no run_number key, in file order
RuntimeLines ==
    SelectSeq(input_file,
              LAMBDA row : K_runtime \in DOMAIN row /\ K_run_number \notin DOMAIN row)

\* read_raw_content has been called and has returned or raised
ReadDone == calls # <<>>

\* main has ended: by sys.exit(0) or by an exception
MainEnded == pc \in {"exit_0", "raised"}

\* C4, as claimed: on a log with a run_number line, read_raw_content returns;
\* its run identifier is the value of the last line with a run_number key, and
\* its events are the lines with a runtime key and no run_number key, each of
\* them, whatever text its values hold.
C4_MarkerIffRunNumberKey ==
    (ReadDone /\ MarkerLines # <<>>) =>
        /\ exc = "none"
        /\ run_number = PyStr(MarkerLines[Len(MarkerLines)][K_run_number])
        /\ Len(stripped_content) = Len(RuntimeLines)
        /\ \A i \in 1..Len(RuntimeLines) :
               \E j \in 1..Len(stripped_content) : stripped_content[j].json = RuntimeLines[i]

\* C5, as claimed: with the secret set, a log with no event or with no
\* run_number line makes main post "No output" once and exit with 0, having
\* called nothing but read_raw_content and post_empty.  (Lines that only
\* mention run_number are C4's matter and are left out here.)
C5_EmptyRunPostsNoOutput ==
    (/\ MainEnded
     /\ secret = "set"
     /\ \A i \in 1..Len(input_file) :
            IsMarkerRow(input_file[i]) => K_run_number \in DOMAIN input_file[i]
     /\ (RuntimeLines = <<>> \/ MarkerLines = <<>>))
    => /\ pc = "exit_0"
       /\ exc = "none"
       /\ posts = <<"No output">>
       /\ calls = <<"read_raw_content", "post_empty">>

C8_SortedByTimestamp ==
    /\ \A i \in 1..(Len(stripped_content) - 1) :
           StrLeq(stripped_content[i].timestamp.str, stripped_content[i + 1].timestamp.str)
    /\ (ReadDone /\ exc \notin {"KeyError", "UnboundLocalError"})
           => /\ Len(stripped_content) = Len(RuntimeLines)
              /\ \A i \in 1..Len(RuntimeLines) :
                     \E j \in 1..Len(stripped_content) :
                         stripped_content[j] = Content(RuntimeLines[i])
    /\ (\E i \in 1..Len(calls) : calls[i] = "fill_rows")
           => LET kept == Kept(stripped_content)
                  g == filled_rows.gantt_rows
              IN  /\ Len(g) = Len(kept)
                  /\ \A i \in 1..(Len(g) - 1) : StrLeq(g[i].Finish, g[i + 1].Finish)
                  /\ \A i \in 1..Len(g) :
                         /\ g[i].Finish = kept[i].timestamp.str
                         /\ filled_rows.table_rows[i].duration = kept[i].json[K_runtime].num
                         /\ filled_rows.csv_rows[i].duration = kept[i].json[K_runtime].num

\* the log holds task lines with a later one first, and fill_rows has made
\* three rows of them
C8_Witness ==
    /\ \E i, j \in 1..Len(input_file) :
           /\ i < j
           /\ K_runtime \in DOMAIN input_file[i] /\ K_runtime \in DOMAIN input_file[j]
           /\ StrLess(input_file[j][K_timestamp].str, input_file[i][K_timestamp].str)
    /\ \E i \in 1..Len(calls) : calls[i] = "fill_rows"
    /\ Len(filled_rows.gantt_rows) = 3

\* C9, as amended: on a run that is not empty main calls read_raw_content,
\* open_node_logs, fill_rows and parse_filled_rows, in this order, and no call
\* of generate_statistics comes before the call of parse_filled_rows; on an
\* empty run it calls read_raw_content and post_empty.
C9_CallOrder ==
    /\ \/ \E n \in 0..4 :
              calls = SubSeq(<<"read_raw_content", "open_node_logs", "fill_rows",
                               "parse_filled_rows">>, 1, n)
       \/ calls = <<"read_raw_content", "post_empty">>
    /\ \A i \in 1..Len(calls) :
           calls[i] = "generate_statistics"
               => \E j \in 1..(i - 1) : calls[j] = "parse_filled_rows"

\* C9, as claimed: generate_statistics has been called before parse_filled_rows
\* is.
C9_AggregatorBeforeMetrics ==
    \A i \in 1..Len(calls) :
        calls[i] = "parse_filled_rows"
            => \E j \in 1..(i - 1) : calls[j] = "generate_statistics"

\* main has called the four, the last of them parse_filled_rows
C9_Witness ==
    calls = <<"read_raw_content", "open_node_logs", "fill_rows", "parse_filled_rows">>

\* C10, as claimed: a run with a run identifier and a row does not end in an
\* exception.
C10_MainCompletes ==
    (secret = "set" /\ run_number # <<>> /\ filled_rows.csv_rows # <<>>) => pc # "raised"

====
